---- MODULE Spec2Model ----
(***************************************************************************)
(* Model of the template-editor server (src/unnamed/part_000, the variant  *)
(* that keeps projects under TemplateEdit/projects, and                    *)
(* src/TemplateEdit/server-editor.js, the variant that keeps them under    *)
(* <portfolio>/projects).                                                  *)
(*                                                                         *)
(* A JavaScript string is a sequence of one-character strings.  A          *)
(* JavaScript value of a request body or of a parsed JSON document is a    *)
(* tagged record [t |-> type, v |-> payload].  An HTML document is a       *)
(* sequence of elements [tag, text]; text is a sequence of tokens.         *)
(* Records of projects.json are objects whose slug is a string or absent.  *)
(* HTML files have a non-empty base name, and the file system tells a.html *)
(* from A.html.  A request's slug is a string or absent.  File calls do    *)
(* not fail.                                                                *)
(*                                                                         *)
(* Spec        the part_000 server from a missing or empty index, with the *)
(*             developer moving pages in and out of the directory          *)
(* SpecAny     the same, started on an index file of arbitrary contents    *)
(* SpecFresh   one save request of any slug or meta on a new directory     *)
(* SpecUpserts a bounded, logged sequence of save requests                 *)
(* SpecPair    both variants fed the same requests                         *)
(* SpecFlight  overlapping requests, handler line by handler line          *)
(* SpecDir     one reconcile of a directory and an index that disagree     *)
(* SpecPage    one reconcile of one page of any content                    *)
(* SpecCrash   upserts that may end between their two writes, reconciles   *)
(***************************************************************************)
EXTENDS Integers, Sequences, FiniteSets, TLC

VARIABLES
    indexFile,   \* contents of PROJECTS_JSON (projects.json)
    files,       \* the *.html files of PROJECTS_DIR: base name -> content
    resp,        \* the response to the request just handled, if any
    syncStreak,  \* successful /api/sync-projects runs since the last other event
    indexSeen,   \* what the request just handled found when it loaded the index
    saveLog,     \* the save requests handled so far, each with its record's place
    edIndexFile, \* projects.json of the server-editor.js variant
    edFiles,     \* the *.html files of the server-editor.js variant
    edResp,      \* the response of the server-editor.js variant
    reqs,        \* the parsed requests waiting for, or run by, the event loop
    pc,          \* each such request's position in its handler
    local,       \* each such request's slug and projects variables
    out,         \* each such request's response
    running      \* the request whose handler is on the JavaScript thread, or 0

\* the state of the server of src/unnamed/part_000 and what is observed of it
core == <<indexFile, files, resp, syncStreak, indexSeen>>
\* the server-editor.js variant run side by side
editor == <<edIndexFile, edFiles, edResp>>
\* requests in flight in one server process
flight == <<reqs, pc, local, out, running>>

vars == <<core, saveLog, editor, flight>>

\* the longest run of consecutive reconciles that is counted
MaxStreak == 2

----------------------------------------------------------------------------
\* JavaScript values

Undefined == [t |-> "undefined", v |-> <<>>]
Null == [t |-> "null", v |-> <<>>]
False == [t |-> "bool", v |-> <<0>>]
Num(n) == [t |-> "num", v |-> <<n>>]
Str(s) == [t |-> "str", v |-> s]
Arr(a) == [t |-> "arr", v |-> a]

\* ToBoolean, as used by || and ?: (objects and arrays are truthy)
Truthy(x) ==
    CASE x.t = "undefined" -> FALSE
      [] x.t = "null" -> FALSE
      [] x.t = "bool" -> x.v /= <<0>>
      [] x.t = "num" -> x.v /= <<0>>
      [] x.t = "str" -> x.v /= <<>>
      [] OTHER -> TRUE

\* a || b
JsOr(a, b) == IF Truthy(a) THEN a ELSE b

\* Array.isArray
IsArray(x) == x.t = "arr"

----------------------------------------------------------------------------
\* Characters and strings

LowerLetters == {"a", "c", "e", "g", "h", "j", "m", "n", "o", "p", "r", "t", "y"}
UpperLetters == {"A", "M", "P", "T"}
Digits == {"1"}
Whitespace == {" "}
Punctuation == {"!", "|"}
OwnerNames == {"Sharva Paralkar", "SHARVA PARALKAR"}

\* String.prototype.toLowerCase, per character
ToLowerCaseChar(c) ==
    CASE c = "A" -> "a"
      [] c = "M" -> "m"
      [] c = "P" -> "p"
      [] c = "T" -> "t"
      [] OTHER -> c

\* String.prototype.toUpperCase, per character
ToUpperCaseChar(c) ==
    CASE c = "a" -> "A"
      [] c = "m" -> "M"
      [] c = "p" -> "P"
      [] c = "t" -> "T"
      [] c = "c" -> "C"
      [] c = "e" -> "E"
      [] c = "j" -> "J"
      [] c = "o" -> "O"
      [] c = "r" -> "R"
      [] c = "y" -> "Y"
      [] c = "g" -> "G"
      [] c = "h" -> "H"
      [] c = "n" -> "N"
      [] OTHER -> c

ToLowerCase(s) == [i \in 1..Len(s) |-> ToLowerCaseChar(s[i])]

\* the character class [a-z0-9-] under the i flag
IsSlugChar(c) == c \in LowerLetters \cup UpperLetters \cup Digits \cup {"-"}

\* the character class \w
IsWordChar(c) == c \in LowerLetters \cup UpperLetters \cup Digits \cup {"_"}

----------------------------------------------------------------------------
\* The persisted index and the project records

\* projects.json is absent, or holds a text that is a JSON document or is not
NoFile == [exists |-> FALSE, valid |-> FALSE, value |-> Undefined]
BadText == [exists |-> TRUE, valid |-> FALSE, value |-> Undefined]

\* JSON.stringify(projects, null, 2), written to PROJECTS_JSON
JsonStringify(projects) == [exists |-> TRUE, valid |-> TRUE, value |-> Arr(projects)]

\* the load of PROJECTS_JSON: existsSync, JSON.parse inside try/catch, the
\* Array.isArray test; the result is the sequence of records
LoadProjects(idx) ==
    LET parsed == IF idx.exists
                  THEN (IF idx.valid THEN idx.value ELSE Arr(<<>>))
                  ELSE Arr(<<>>)
    IN  IF IsArray(parsed) THEN parsed.v ELSE <<>>

\* the branch the load of PROJECTS_JSON takes
LoadKind(idx) ==
    IF ~idx.exists THEN "missing"
    ELSE IF ~idx.valid THEN "invalid"
    ELSE IF ~IsArray(idx.value) THEN "notarray"
    ELSE "array"

\* SanitizeSlug followed by toLowerCase
SanitizeSlugLowering(raw) ==
    LET s == JsOr(raw, Str(<<>>)).v
    IN  [i \in 1..Len(s) |-> IF IsSlugChar(s[i]) THEN ToLowerCaseChar(s[i]) ELSE "-"]

\* SanitizeSlug with the disallowed characters deleted instead of replaced
SanitizeSlugDeleting(raw) ==
    LET s == JsOr(raw, Str(<<>>)).v
    IN  SelectSeq(s, IsSlugChar)

\* (req.body.slug || '').replace(/[^a-z0-9-]/gi, '-')
SanitizeSlug(raw) ==
    LET s == JsOr(raw, Str(<<>>)).v
    IN  [i \in 1..Len(s) |-> IF IsSlugChar(s[i]) THEN s[i] ELSE "-"]

\* a meta object with no field set
EmptyMeta ==
    [title |-> Undefined, category |-> Undefined, dataCategory |-> Undefined,
     description |-> Undefined, tags |-> Undefined, image |-> Undefined]

\* req.body.meta || {}
MetaOf(body) == IF Truthy(body.meta) THEN body.meta.v ELSE EmptyMeta

\* NormalizeList without the Array.isArray test: x ? [x] : []
NormalizeListWrapping(x) == IF Truthy(x) THEN Arr(<<x>>) ELSE Arr(<<>>)

\* Array.isArray(x) ? x : (x ? [x] : [])
NormalizeList(x) ==
    IF IsArray(x) THEN x ELSE (IF Truthy(x) THEN Arr(<<x>>) ELSE Arr(<<>>))

\* the entry object literal of /api/save
BuildEntry(slug, meta) ==
    [slug |-> Str(slug),
     title |-> JsOr(meta.title, Str(slug)),
     category |-> JsOr(meta.category, Str(<<>>)),
     dataCategory |-> NormalizeList(meta.dataCategory),
     description |-> JsOr(meta.description, Str(<<>>)),
     tags |-> NormalizeList(meta.tags),
     image |-> JsOr(meta.image, Str(<<>>))]

\* (p.slug || '').toLowerCase()
SlugKey(p) == ToLowerCase(JsOr(p.slug, Str(<<>>)).v)

\* FindIndex comparing the slugs as they are, without toLowerCase
FindIndexCaseSensitive(projects, slug) ==
    LET hits == {i \in 1..Len(projects) : JsOr(projects[i].slug, Str(<<>>)).v = slug}
    IN  IF hits = {} THEN 0 ELSE CHOOSE i \in hits : \A j \in hits : i <= j

\* projects.findIndex(p => key of p === slug.toLowerCase()); 0 stands for -1
FindIndex(projects, slug) ==
    LET hits == {i \in 1..Len(projects) : SlugKey(projects[i]) = ToLowerCase(slug)}
    IN  IF hits = {} THEN 0 ELSE CHOOSE i \in hits : \A j \in hits : i <= j

\* UpsertEntry written as filter and push: the records of the slug are dropped
\* and the entry goes to the end
UpsertEntryAppending(projects, entry) ==
    LET Other(p) == SlugKey(p) /= ToLowerCase(entry.slug.v)
    IN  Append(SelectSeq(projects, Other), entry)

\* if (idx >= 0) projects[idx] = entry; else projects.push(entry)
UpsertEntry(projects, entry) ==
    LET idx == FindIndex(projects, entry.slug.v)
    IN  IF idx > 0 THEN [projects EXCEPT ![idx] = entry] ELSE Append(projects, entry)

\* WriteHtml with the file named after slug.toLowerCase()
WriteHtmlLowercased(fs, slug, html) ==
    [n \in DOMAIN fs \cup {ToLowerCase(slug)} |->
        IF n = ToLowerCase(slug) THEN html ELSE fs[n]]

\* fs.writeFileSync(path.join(PROJECTS_DIR, slug + '.html'), html, 'utf8')
WriteHtml(fs, slug, html) ==
    [n \in DOMAIN fs \cup {slug} |-> IF n = slug THEN html ELSE fs[n]]

\* the path string of the save response
StoredPath(slug) == <<"TemplateEdit/projects/", slug, ".html">>

\* SaveHandler with JSON.parse outside any try/catch: a text that does not
\* parse ends the request with a server error after the page was written
SaveHandlerNoCatch(idx, fs, body) ==
    LET slug == SanitizeSlug(body.slug)
    IN  IF slug = <<>>
        THEN [indexFile |-> idx, files |-> fs, loaded |-> "none",
              resp |-> [op |-> "save", status |-> 400, error |-> "Missing slug"]]
        ELSE LET html == JsOr(body.html, Str(<<>>)).v
                 entry == BuildEntry(slug, MetaOf(body))
                 projects == UpsertEntry(LoadProjects(idx), entry)
             IN  IF idx.exists /\ ~idx.valid
                 THEN [indexFile |-> idx,
                       files |-> WriteHtml(fs, slug, html),
                       loaded |-> LoadKind(idx),
                       resp |-> [op |-> "save", status |-> 500, error |-> "SyntaxError"]]
                 ELSE [indexFile |-> JsonStringify(projects),
                       files |-> WriteHtml(fs, slug, html),
                       loaded |-> LoadKind(idx),
                       resp |-> [op |-> "save", status |-> 200, path |-> StoredPath(slug)]]

\* app.post('/api/save'): the state and the response it leaves
SaveHandler(idx, fs, body) ==
    LET slug == SanitizeSlug(body.slug)
    IN  IF slug = <<>>
        THEN [indexFile |-> idx, files |-> fs, loaded |-> "none",
              resp |-> [op |-> "save", status |-> 400, error |-> "Missing slug"]]
        ELSE LET html == JsOr(body.html, Str(<<>>)).v
                 entry == BuildEntry(slug, MetaOf(body))
                 projects == UpsertEntry(LoadProjects(idx), entry)
             IN  [indexFile |-> JsonStringify(projects),
                  files |-> WriteHtml(fs, slug, html),
                  loaded |-> LoadKind(idx),
                  resp |-> [op |-> "save", status |-> 200, path |-> StoredPath(slug)]]

----------------------------------------------------------------------------
\* Reconcile: parseMetaFromHtml and /api/sync-projects

RECURSIVE DropTrailingSpace(_)
\* the text without its trailing whitespace
DropTrailingSpace(s) ==
    IF s /= <<>> /\ s[Len(s)] \in Whitespace
    THEN DropTrailingSpace(SubSeq(s, 1, Len(s) - 1))
    ELSE s

RECURSIVE DropLeadingSpace(_)
\* the text without its leading whitespace
DropLeadingSpace(s) ==
    IF s /= <<>> /\ s[1] \in Whitespace THEN DropLeadingSpace(Tail(s)) ELSE s

\* String.prototype.trim
Trim(s) == DropLeadingSpace(DropTrailingSpace(s))

\* .replace(/\s*\|\s*Sharva Paralkar\s*$/i, ''): the match, when there is one,
\* is whitespace, a bar, whitespace, the name in any letter case and whitespace
\* up to the end of the text
StripOwnerSuffix(s) ==
    LET a == DropTrailingSpace(s)
    IN  IF a /= <<>> /\ a[Len(a)] \in OwnerNames
        THEN LET b == DropTrailingSpace(SubSeq(a, 1, Len(a) - 1))
             IN  IF b /= <<>> /\ b[Len(b)] = "|"
                 THEN DropTrailingSpace(SubSeq(b, 1, Len(b) - 1))
                 ELSE s
        ELSE s

\* html.match(/<tag[^>]*>([^<]+)<\/tag>/i): the first element of that tag with
\* a non-empty text, as a one-element set, or the empty set
FirstMatch(html, tag) ==
    LET hits == {i \in 1..Len(html) : html[i].tag = tag /\ html[i].text /= <<>>}
    IN  IF hits = {} THEN {}
        ELSE {html[CHOOSE i \in hits : \A j \in hits : i <= j].text}

\* parseMetaFromHtml with the h1 test written as h1Match && !titleMatch
parseMetaByMatch(html) ==
    LET titleMatch == FirstMatch(html, "title")
        h1Match == FirstMatch(html, "h1")
        imgMatch == FirstMatch(html, "img")
        title1 == IF titleMatch /= {}
                  THEN Trim(StripOwnerSuffix(CHOOSE x \in titleMatch : TRUE))
                  ELSE <<>>
        title2 == IF h1Match /= {} /\ titleMatch = {}
                  THEN Trim(CHOOSE x \in h1Match : TRUE)
                  ELSE title1
    IN  [title |-> title2,
         image |-> IF imgMatch /= {} THEN Trim(CHOOSE x \in imgMatch : TRUE) ELSE <<>>]

\* parseMetaFromHtml(html); an img element's text is its src attribute
parseMetaFromHtml(html) ==
    LET titleMatch == FirstMatch(html, "title")
        h1Match == FirstMatch(html, "h1")
        imgMatch == FirstMatch(html, "img")
        title1 == IF titleMatch /= {}
                  THEN Trim(StripOwnerSuffix(CHOOSE x \in titleMatch : TRUE))
                  ELSE <<>>
        title2 == IF h1Match /= {} /\ title1 = <<>>
                  THEN Trim(CHOOSE x \in h1Match : TRUE)
                  ELSE title1
    IN  [title |-> title2,
         image |-> IF imgMatch /= {} THEN Trim(CHOOSE x \in imgMatch : TRUE) ELSE <<>>]

\* slug.replace(/-/g, ' ').replace(/\b\w/g, c => c.toUpperCase())
HumanizeSlug(slug) ==
    LET spaced == [i \in 1..Len(slug) |-> IF slug[i] = "-" THEN " " ELSE slug[i]]
    IN  [i \in 1..Len(spaced) |->
            IF IsWordChar(spaced[i]) /\ (i = 1 \/ ~IsWordChar(spaced[i - 1]))
            THEN ToUpperCaseChar(spaced[i])
            ELSE spaced[i]]

\* the entry object literal of /api/sync-projects
BuildSyncEntry(slug, html) ==
    LET parsed == parseMetaFromHtml(html)
    IN  [slug |-> Str(slug),
         title |-> JsOr(Str(parsed.title), Str(HumanizeSlug(slug))),
         category |-> Str(<<>>),
         dataCategory |-> Arr(<<>>),
         description |-> Str(<<>>),
         tags |-> Arr(<<>>),
         image |-> JsOr(Str(parsed.image), Str(<<>>))]

\* a directory entry of PROJECTS_DIR
HtmlFile(base) == [base |-> base, ext |-> ".html"]
IndexDirent == [base |-> <<"projects">>, ext |-> ".json"]

\* the entries fs.readdirSync(PROJECTS_DIR) returns, in no order
Readdir(idx, fs) ==
    {HtmlFile(n) : n \in DOMAIN fs} \cup (IF idx.exists THEN {IndexDirent} ELSE {})

\* the orders in which readdirSync may return these entries
RECURSIVE Listings(_)
Listings(dirents) ==
    IF dirents = {} THEN {<<>>}
    ELSE UNION {{<<d>> \o l : l \in Listings(dirents \ {d})} : d \in dirents}

\* f.endsWith('.html')
EndsWithHtml(f) == f.ext = ".html"

\* files.filter(f => f.endsWith('.html'))
RECURSIVE FilterHtml(_)
FilterHtml(listing) ==
    IF listing = <<>> THEN <<>>
    ELSE IF EndsWithHtml(Head(listing))
         THEN <<Head(listing)>> \o FilterHtml(Tail(listing))
         ELSE FilterHtml(Tail(listing))

\* path.basename(file, '.html') for an entry that ends with .html
Basename(f) == f.base

\* SyncKey without toLowerCase
SyncKeyCaseSensitive(p) == JsOr(p.slug, Str(<<>>)).v

\* String(p.slug || '').toLowerCase()
SyncKey(p) == ToLowerCase(JsOr(p.slug, Str(<<>>)).v)

\* AddMissing without bySlug.set(key, entry)
RECURSIVE AddMissingNoSet(_, _, _)
AddMissingNoSet(fileList, fs, acc) ==
    IF fileList = <<>> THEN acc
    ELSE LET slug == Basename(Head(fileList))
             key == ToLowerCase(slug)
         IN  IF key \notin acc.bySlug
             THEN AddMissingNoSet(Tail(fileList), fs,
                     [projects |-> Append(acc.projects, BuildSyncEntry(slug, fs[slug])),
                      bySlug |-> acc.bySlug,
                      added |-> Append(acc.added, slug)])
             ELSE AddMissingNoSet(Tail(fileList), fs, acc)

\* AddMissing with projects.unshift(entry) in place of projects.push(entry)
RECURSIVE AddMissingPrepending(_, _, _)
AddMissingPrepending(fileList, fs, acc) ==
    IF fileList = <<>> THEN acc
    ELSE LET slug == Basename(Head(fileList))
             key == ToLowerCase(slug)
         IN  IF key \notin acc.bySlug
             THEN AddMissingPrepending(Tail(fileList), fs,
                     [projects |-> <<BuildSyncEntry(slug, fs[slug])>> \o acc.projects,
                      bySlug |-> acc.bySlug \cup {key},
                      added |-> Append(acc.added, slug)])
             ELSE AddMissingPrepending(Tail(fileList), fs, acc)

\* the for loop over files: acc holds projects, the keys of bySlug and added
RECURSIVE AddMissing(_, _, _)
AddMissing(fileList, fs, acc) ==
    IF fileList = <<>> THEN acc
    ELSE LET slug == Basename(Head(fileList))
             key == ToLowerCase(slug)
         IN  IF key \notin acc.bySlug
             THEN AddMissing(Tail(fileList), fs,
                     [projects |-> Append(acc.projects, BuildSyncEntry(slug, fs[slug])),
                      bySlug |-> acc.bySlug \cup {key},
                      added |-> Append(acc.added, slug)])
             ELSE AddMissing(Tail(fileList), fs, acc)

\* KeepExisting with the filter left out
KeepAll(projects, slugsFromFiles) == projects

\* projects.filter(p => slugsFromFiles.has(key of p))
RECURSIVE KeepExisting(_, _)
KeepExisting(projects, slugsFromFiles) ==
    IF projects = <<>> THEN <<>>
    ELSE IF SyncKey(Head(projects)) \in slugsFromFiles
         THEN <<Head(projects)>> \o KeepExisting(Tail(projects), slugsFromFiles)
         ELSE KeepExisting(Tail(projects), slugsFromFiles)

\* SyncMerge with before taken ahead of the loop that adds the records
SyncMergeCountingLoaded(loaded, fs, listing) ==
    LET fileList == FilterHtml(listing)
        slugsFromFiles == {ToLowerCase(Basename(fileList[i])) : i \in 1..Len(fileList)}
        bySlug == {SyncKey(loaded[i]) : i \in 1..Len(loaded)}
        before == Len(loaded)
        acc == AddMissing(fileList, fs,
                  [projects |-> loaded, bySlug |-> bySlug, added |-> <<>>])
        projects == KeepExisting(acc.projects, slugsFromFiles)
        removedCount == before - Len(projects)
    IN  [indexFile |-> JsonStringify(projects),
         resp |-> [op |-> "sync", status |-> 200, projects |-> projects,
                   added |-> acc.added, removed |-> removedCount,
                   message |-> <<Len(projects), Len(acc.added), removedCount>>]]

\* /api/sync-projects from readdirSync to the response: the list written and
\* the response, when readdirSync returned the entries in the order of listing
SyncMerge(loaded, fs, listing) ==
    LET fileList == FilterHtml(listing)
        slugsFromFiles == {ToLowerCase(Basename(fileList[i])) : i \in 1..Len(fileList)}
        bySlug == {SyncKey(loaded[i]) : i \in 1..Len(loaded)}
        acc == AddMissing(fileList, fs,
                  [projects |-> loaded, bySlug |-> bySlug, added |-> <<>>])
        before == Len(acc.projects)
        projects == KeepExisting(acc.projects, slugsFromFiles)
        removedCount == before - Len(projects)
    IN  [indexFile |-> JsonStringify(projects),
         resp |-> [op |-> "sync", status |-> 200, projects |-> projects,
                   added |-> acc.added, removed |-> removedCount,
                   message |-> <<Len(projects), Len(acc.added), removedCount>>]]

\* app.get('/api/sync-projects'): the state and the response it leaves
SyncHandler(idx, fs, listing) ==
    LET m == SyncMerge(LoadProjects(idx), fs, listing)
    IN  [indexFile |-> m.indexFile,
         files |-> fs,
         loaded |-> LoadKind(idx),
         resp |-> m.resp]

----------------------------------------------------------------------------
\* Requests and the environment

Obj(o) == [t |-> "obj", v |-> o]

\* an HTML page with a title element that carries the site owner's suffix
TitledDoc ==
    <<[tag |-> "title", text |-> <<"T", " ", "|", " ", "Sharva Paralkar">>]>>

\* the slug, html and meta values a save request is sent with
SlugInputs == {Undefined, Str(<<>>), Str(<<"a">>), Str(<<"A">>), Str(<<"!">>)}
HtmlInputs == {Undefined, Str(TitledDoc)}
MetaInputs ==
    {Undefined,
     Obj([EmptyMeta EXCEPT !.title = Str(<<"T">>), !.tags = Str(<<"t">>)])}

\* the base names and contents of the pages a developer moves into PROJECTS_DIR
ExternalNames == {<<"a">>, <<"A">>, <<"-">>}
ExternalDocs == {TitledDoc}

NoResponse == [op |-> "none", status |-> 0]

\* POST /api/save with body {slug, html, meta}
Save(slug, html, meta) ==
    LET r == SaveHandler(indexFile, files, [slug |-> slug, html |-> html, meta |-> meta])
    IN  /\ indexFile' = r.indexFile
        /\ files' = r.files
        /\ resp' = r.resp
        /\ indexSeen' = r.loaded
        /\ syncStreak' = 0

\* GET /api/sync-projects, the directory read in the order of listing
Sync(listing) ==
    LET r == SyncHandler(indexFile, files, listing)
    IN  /\ indexFile' = r.indexFile
        /\ files' = r.files
        /\ resp' = r.resp
        /\ indexSeen' = r.loaded
        /\ syncStreak' = IF syncStreak < MaxStreak THEN syncStreak + 1 ELSE syncStreak

\* the developer moves a page into PROJECTS_DIR by hand
PutFile(base, doc) ==
    /\ files' = WriteHtml(files, base, doc)
    /\ resp' = NoResponse
    /\ indexSeen' = "none"
    /\ syncStreak' = 0
    /\ UNCHANGED indexFile

\* the developer deletes a page of PROJECTS_DIR
DeleteFile(base) ==
    /\ base \in DOMAIN files
    /\ files' = [n \in DOMAIN files \ {base} |-> files[n]]
    /\ resp' = NoResponse
    /\ indexSeen' = "none"
    /\ syncStreak' = 0
    /\ UNCHANGED indexFile

SaveRequest ==
    /\ \E slug \in SlugInputs, html \in HtmlInputs, meta \in MetaInputs :
          Save(slug, html, meta)
    /\ UNCHANGED <<saveLog, editor, flight>>

SyncRequest ==
    /\ \E listing \in Listings(Readdir(indexFile, files)) : Sync(listing)
    /\ UNCHANGED <<saveLog, editor, flight>>

PutAnyFile ==
    /\ \E base \in ExternalNames, doc \in ExternalDocs : PutFile(base, doc)
    /\ UNCHANGED <<saveLog, editor, flight>>

DeleteAnyFile ==
    /\ \E base \in ExternalNames : DeleteFile(base)
    /\ UNCHANGED <<saveLog, editor, flight>>

\* the server starts on a projects directory with no page and no index, or an
\* empty one
InitCore ==
    /\ indexFile \in {NoFile, JsonStringify(<<>>)}
    /\ files = <<>>
    /\ resp = NoResponse
    /\ indexSeen = "none"
    /\ syncStreak = 0

\* nothing logged, no second variant exercised, no request in flight
InitRest ==
    /\ saveLog = <<>>
    /\ edIndexFile = NoFile
    /\ edFiles = <<>>
    /\ edResp = NoResponse
    /\ reqs = <<>>
    /\ pc = <<>>
    /\ local = <<>>
    /\ out = <<>>
    /\ running = 0

Init == InitCore /\ InitRest

Next == SaveRequest \/ SyncRequest \/ PutAnyFile \/ DeleteAnyFile

Spec == Init /\ [][Next]_vars

----------------------------------------------------------------------------
\* The same server started on an index file with arbitrary contents

\* the most records a hand-written index starts with
MaxInitRecords == 2

\* records a hand-written index may hold: case variants of one slug and a
\* record with no slug
StrayRecords ==
    {BuildEntry(<<"a">>, EmptyMeta), BuildEntry(<<"A">>, EmptyMeta),
     [BuildEntry(<<"a">>, EmptyMeta) EXCEPT !.slug = Undefined]}

\* JSON documents that are not arrays
NonArrayValues == {Null, Num(5), Obj(EmptyMeta)}

AnyIndex ==
    {NoFile, BadText}
    \cup {[exists |-> TRUE, valid |-> TRUE, value |-> x] : x \in NonArrayValues}
    \cup {JsonStringify(recs) :
            recs \in UNION {[1..n -> StrayRecords] : n \in 0..MaxInitRecords}}

InitAny ==
    /\ indexFile \in AnyIndex
    /\ files = <<>>
    /\ resp = NoResponse
    /\ indexSeen = "none"
    /\ syncStreak = 0
    /\ InitRest

SpecAny == InitAny /\ [][Next]_vars

----------------------------------------------------------------------------
\* Properties

\* the records of the persisted index
Persisted == LoadProjects(indexFile)

\* the lowercased base names of the *.html files
FileKeys == {ToLowerCase(n) : n \in DOMAIN files}

\* C1: the persisted index never holds two records whose slugs are equal
\* under case-insensitive comparison
NoDuplicateSlug ==
    \A i, j \in 1..Len(Persisted) :
        SlugKey(Persisted[i]) = SlugKey(Persisted[j]) => i = j

\* a reconcile added a record for one of two pages whose names differ only in
\* letter case, next to a record that an upsert stored
NoDuplicateSlugWitness ==
    /\ resp.op = "sync"
    /\ {<<"a">>, <<"A">>} \subseteq DOMAIN files
    /\ Len(resp.added) = 1
    /\ Len(Persisted) = 2

\* C5: after a reconcile the lowercased slugs of the persisted records are
\* exactly the lowercased base names of the *.html files
SyncAgrees ==
    syncStreak >= 1 =>
        {SlugKey(Persisted[i]) : i \in 1..Len(Persisted)} = FileKeys

\* a reconcile both added a record for a page and removed a record whose page
\* is gone
SyncAgreesWitness ==
    /\ syncStreak >= 1
    /\ resp.removed >= 1
    /\ resp.added /= <<>>

\* C4: right after a reconcile, a further reconcile, whatever the order of the
\* directory listing, adds nothing, removes nothing and persists the same
\* record list; a second reconcile in a row has returned just that
ReconcileIdempotent ==
    /\ syncStreak >= 1 =>
          \A listing \in Listings(Readdir(indexFile, files)) :
              LET r == SyncHandler(indexFile, files, listing)
              IN  /\ r.resp.added = <<>>
                  /\ r.resp.removed = 0
                  /\ r.indexFile = indexFile
    /\ syncStreak >= 2 =>
          /\ resp.added = <<>>
          /\ resp.removed = 0
          /\ resp.projects = Persisted

\* two reconciles ran in a row over pages whose names differ only in case
ReconcileIdempotentWitness ==
    /\ syncStreak = 2
    /\ {<<"a">>, <<"A">>} \subseteq DOMAIN files
    /\ Persisted /= <<>>

\* the entries an upsert of slug may have built
EntriesFor(slug) ==
    {BuildEntry(slug, MetaOf([meta |-> m])) : m \in MetaInputs}

\* C6: a request that found the index missing, unparseable or not an array
\* completed normally with the index taken as the empty list: an upsert left
\* exactly its own record, a reconcile removed nothing and added every record
\* it persisted
TolerantLoad ==
    indexSeen \in {"missing", "invalid", "notarray"} =>
        /\ resp.status = 200
        /\ LoadKind(indexFile) = "array"
        /\ resp.op = "save" =>
              /\ Len(Persisted) = 1
              /\ Persisted[1] \in EntriesFor(resp.path[2])
        /\ resp.op = "sync" =>
              /\ resp.removed = 0
              /\ Len(resp.added) = Len(Persisted)
              /\ resp.projects = Persisted

\* an upsert ran on an index file that holds invalid JSON
TolerantLoadWitness ==
    /\ indexSeen = "invalid"
    /\ resp.op = "save"
    /\ resp.status = 200
    /\ Len(Persisted) = 1

\* C7: in every state, an upsert answers 400 "Missing slug" exactly when the
\* sanitized slug is empty, which is when the raw slug is absent or empty, and
\* then it changes neither the pages nor the index; with a non-empty raw slug
\* it answers 200, writes the page and writes the index with the record
MissingSlugOnly ==
    \A slug \in SlugInputs, html \in HtmlInputs, meta \in MetaInputs :
        LET r == SaveHandler(indexFile, files,
                             [slug |-> slug, html |-> html, meta |-> meta])
            s == SanitizeSlug(slug)
            recs == LoadProjects(r.indexFile)
        IN  /\ r.resp.status = 400 <=> s = <<>>
            /\ r.resp.status = 400 <=> (slug.t /= "str" \/ slug.v = <<>>)
            /\ r.resp.status = 400 =>
                  /\ r.resp.error = "Missing slug"
                  /\ r.files = files
                  /\ r.indexFile = indexFile
            /\ (slug.t = "str" /\ slug.v /= <<>>) =>
                  /\ r.resp.status = 200
                  /\ Len(s) = Len(slug.v)
                  /\ s \in DOMAIN r.files
                  /\ r.files[s] = JsOr(html, Str(<<>>)).v
                  /\ LoadKind(r.indexFile) = "array"
                  /\ \E i \in 1..Len(recs) :
                        recs[i] = BuildEntry(s, MetaOf([meta |-> meta]))

\* an upsert was refused for its missing slug while pages and records exist,
\* and the store also holds the page of a slug made of a disallowed character
MissingSlugOnlyWitness ==
    /\ resp.op = "save"
    /\ resp.status = 400
    /\ <<"-">> \in DOMAIN files
    /\ Persisted /= <<>>

----------------------------------------------------------------------------
\* One save request, of any slug or any meta, on a new projects directory

\* the longest raw slug, but for the sample below
MaxSlugLen == 2

\* the characters of the enumerated raw slugs: letters of both cases, a digit,
\* the hyphen and characters outside [a-zA-Z0-9-]
RawChars == {"a", "y", "A", "M", "1", "-", " ", "!"}

\* the raw slug "My Project!"
MyProject == <<"M", "y", " ", "P", "r", "o", "j", "e", "c", "t", "!">>

RawSlugs ==
    {MyProject} \cup UNION {[1..n -> RawChars] : n \in 0..MaxSlugLen}

\* the page <p>x</p> and the meta {title: "T"}
ParagraphDoc == <<[tag |-> "p", text |-> <<"x">>]>>
TitleMeta == Obj([EmptyMeta EXCEPT !.title = Str(<<"T">>)])

\* values of meta.tags and meta.dataCategory
ListInputs ==
    {Undefined, Null, False, Num(0), Str(<<>>), Str(<<"t">>), Arr(<<>>),
     Arr(<<Str(<<"t">>), Str(<<"c">>)>>), Num(7)}

ListMetas ==
    {Obj([EmptyMeta EXCEPT !.tags = t, !.dataCategory = d]) :
        t \in ListInputs, d \in ListInputs}

\* no request was handled yet
IsFresh == resp = NoResponse /\ files = <<>>

FreshSlugSave ==
    /\ IsFresh
    /\ \E raw \in RawSlugs : Save(Str(raw), Str(ParagraphDoc), TitleMeta)
    /\ UNCHANGED <<saveLog, editor, flight>>

FreshMetaSave ==
    /\ IsFresh
    /\ \E meta \in ListMetas : Save(Str(<<"a">>), Undefined, meta)
    /\ UNCHANGED <<saveLog, editor, flight>>

NextFresh == FreshSlugSave \/ FreshMetaSave

SpecFresh == Init /\ [][NextFresh]_vars

\* the characters [a-zA-Z0-9-]
SlugAlphabet == LowerLetters \cup UpperLetters \cup Digits \cup {"-"}

\* C3, as amended: the slug an accepted save stores in its record, names its
\* page with and returns in its path is the raw slug with every character
\* outside [a-zA-Z0-9-] replaced by '-' and every other character, uppercase
\* letters included, kept as it is; "My Project!" is stored as "My-Project-"
\* with the page <p>x</p> and the record of the scenario
SlugKeepsCase ==
    [][\A raw \in RawSlugs :
          (Save(Str(raw), Str(ParagraphDoc), TitleMeta) /\ resp'.status = 200) =>
             LET slug == resp'.path[2]
                 recs == LoadProjects(indexFile')
             IN  /\ Len(slug) = Len(raw)
                 /\ \A i \in 1..Len(raw) :
                       /\ slug[i] \in SlugAlphabet
                       /\ raw[i] \in SlugAlphabet => slug[i] = raw[i]
                       /\ raw[i] \notin SlugAlphabet => slug[i] = "-"
                 /\ DOMAIN files' = {slug}
                 /\ files'[slug] = ParagraphDoc
                 /\ Len(recs) = 1
                 /\ recs[1].slug = Str(slug)
                 /\ raw = MyProject =>
                       /\ slug = <<"M", "y", "-", "P", "r", "o", "j", "e", "c", "t", "-">>
                       /\ recs[1] = [slug |-> Str(slug), title |-> Str(<<"T">>),
                                     category |-> Str(<<>>), dataCategory |-> Arr(<<>>),
                                     description |-> Str(<<>>), tags |-> Arr(<<>>),
                                     image |-> Str(<<>>)]
      ]_vars

\* the save of "My Project!" was handled
SlugKeepsCaseWitness ==
    /\ resp.op = "save"
    /\ resp.status = 200
    /\ resp.path[2] = <<"M", "y", "-", "P", "r", "o", "j", "e", "c", "t", "-">>
    /\ DOMAIN files = {resp.path[2]}

\* C3, as claimed: the slug an accepted save stores in its record and names its
\* page with consists only of lowercase letters, digits and hyphens
StoredSlugLowercase ==
    (resp.op = "save" /\ resp.status = 200) =>
        /\ \A i \in 1..Len(Persisted) : \A k \in 1..Len(Persisted[i].slug.v) :
              Persisted[i].slug.v[k] \in LowerLetters \cup Digits \cup {"-"}
        /\ \A n \in DOMAIN files : \A k \in 1..Len(n) :
              n[k] \in LowerLetters \cup Digits \cup {"-"}

\* C10: in the record an upsert builds, tags and dataCategory each hold the
\* input list when the input is a list, a one-element list of the input when
\* it is a non-empty string, and the empty list when it is absent, empty or
\* otherwise falsy
ListsNormalized ==
    [][\A t \in ListInputs, d \in ListInputs :
          Save(Str(<<"a">>), Undefined,
               Obj([EmptyMeta EXCEPT !.tags = t, !.dataCategory = d])) =>
             LET rec == LoadProjects(indexFile')[1]
                 Expected(x, got) ==
                     /\ x.t = "arr" => got = x
                     /\ (x.t = "str" /\ x.v /= <<>>) => got = Arr(<<x>>)
                     /\ x \in {Undefined, Null, False, Num(0), Str(<<>>)} => got = Arr(<<>>)
             IN  /\ Expected(t, rec.tags)
                 /\ Expected(d, rec.dataCategory)
      ]_vars

\* a record was built from a list of tags and a string dataCategory
ListsNormalizedWitness ==
    /\ resp.op = "save"
    /\ Len(Persisted) = 1
    /\ Persisted[1].tags = Arr(<<Str(<<"t">>), Str(<<"c">>)>>)
    /\ Persisted[1].dataCategory = Arr(<<Str(<<"t">>)>>)

----------------------------------------------------------------------------
\* A bounded sequence of save requests, logged

\* the most save requests of a logged sequence
MaxSaves == 3

\* where the record with exactly this slug sits in the persisted index, or 0
PlaceOf(idx, slug) ==
    LET recs == LoadProjects(idx)
        hits == {i \in 1..Len(recs) : recs[i].slug = Str(slug)}
    IN  IF hits = {} THEN 0 ELSE CHOOSE i \in hits : TRUE

LoggedSave ==
    /\ Len(saveLog) < MaxSaves
    /\ \E slug \in SlugInputs, html \in HtmlInputs, meta \in MetaInputs :
          /\ Save(slug, html, meta)
          /\ saveLog' = Append(saveLog,
                [slug |-> slug, meta |-> meta, status |-> resp'.status,
                 place |-> IF resp'.status = 200
                           THEN PlaceOf(indexFile', resp'.path[2]) ELSE 0])
    /\ UNCHANGED <<editor, flight>>

SpecUpserts == Init /\ [][LoggedSave]_vars

\* the lowercased sanitized slug of a logged save
LoggedKey(e) == ToLowerCase(SanitizeSlug(e.slug))

\* C2: when a slug was upserted twice or more, in any letter case and with
\* upserts of other slugs in between, the index holds exactly one record for
\* it, built from the last of these calls, at the place where the first
\* call's record was put
UpsertReplacesInPlace ==
    \A i, j \in 1..Len(saveLog) :
        (/\ i < j
         /\ saveLog[i].status = 200
         /\ saveLog[j].status = 200
         /\ LoggedKey(saveLog[i]) = LoggedKey(saveLog[j])
         /\ \A k \in 1..Len(saveLog) :
               (saveLog[k].status = 200 /\ LoggedKey(saveLog[k]) = LoggedKey(saveLog[i]))
                  => (i <= k /\ k <= j)) =>
            LET hits == {n \in 1..Len(Persisted) :
                            SlugKey(Persisted[n]) = LoggedKey(saveLog[j])}
            IN  /\ hits = {saveLog[i].place}
                /\ Persisted[saveLog[i].place] =
                      BuildEntry(SanitizeSlug(saveLog[j].slug),
                                 MetaOf([meta |-> saveLog[j].meta]))

\* "a" was saved first, then another slug, then "A" with another meta
UpsertReplacesInPlaceWitness ==
    /\ Len(saveLog) = 3
    /\ saveLog[1].slug = Str(<<"a">>)
    /\ saveLog[1].place = 1
    /\ saveLog[2].slug = Str(<<"!">>)
    /\ saveLog[3].slug = Str(<<"A">>)
    /\ saveLog[3].meta /= saveLog[1].meta
    /\ Len(Persisted) = 2

\* the records whose slug is exactly this base name
RecordsNamed(base) == {i \in 1..Len(Persisted) : Persisted[i].slug = Str(base)}

\* C11: after successful upserts from an empty index and an empty directory,
\* pages and records are named one to one: every page is <slug>.html, in
\* the same letter case, for exactly one record's slug, and every record's
\* slug names a page, also when one slug was upserted in two letter cases
NamedOneToOne ==
    /\ \A base \in DOMAIN files : Cardinality(RecordsNamed(base)) = 1
    /\ \A i \in 1..Len(Persisted) :
          /\ Persisted[i].slug.t = "str"
          /\ Persisted[i].slug.v \in DOMAIN files

\* C12: in every state whose index loads as an array, an accepted upsert of
\* any slug s changes at most one record: the records whose slug differs from s without
\* regard to case are all kept, with their fields and in their order, no
\* record is removed, and the list grows by one when no record matched s and
\* keeps its length when one did
UpsertChangesOneRecord ==
    LoadKind(indexFile) = "array" =>
        \A slug \in SlugInputs, html \in HtmlInputs, meta \in MetaInputs :
            LET r == SaveHandler(indexFile, files,
                                 [slug |-> slug, html |-> html, meta |-> meta])
                before == Persisted
                after == LoadProjects(r.indexFile)
                key == ToLowerCase(SanitizeSlug(slug))
                Other(p) == SlugKey(p) /= key
                matched == \E i \in 1..Len(before) : ~Other(before[i])
            IN  r.resp.status = 200 =>
                  /\ SelectSeq(after, Other) = SelectSeq(before, Other)
                  /\ Len(after) >= Len(before)
                  /\ Len(after) = Len(before) + (IF matched THEN 0 ELSE 1)
                  /\ Cardinality({i \in 1..Len(before) : after[i] /= before[i]}) <= 1
                  /\ \A i \in 1..Len(before) : Other(before[i]) => after[i] = before[i]

\* an upsert replaced the first of two records of one slug, written by hand
\* in two letter cases, and left the second as it was
UpsertChangesOneRecordWitness ==
    /\ resp.op = "save"
    /\ resp.status = 200
    /\ indexSeen = "array"
    /\ Len(Persisted) = 2
    /\ Persisted[1].title = Str(<<"T">>)
    /\ Persisted[2] = BuildEntry(<<"A">>, EmptyMeta)
    /\ SlugKey(Persisted[1]) = SlugKey(Persisted[2])

\* C15: no request deletes a page and only an upsert writes one: a reconcile
\* leaves the pages and their contents as they are, a refused upsert too, and
\* an accepted upsert of slug s creates or overwrites <s>.html alone, with
\* the html of the request, or the empty text when the request has none
OnlySaveWritesPages ==
    [][/\ resp'.op \in {"save", "sync"} =>
             \A n \in DOMAIN files : n \in DOMAIN files'
       /\ resp'.op = "sync" => files' = files
       /\ \A slug \in SlugInputs, html \in HtmlInputs, meta \in MetaInputs :
             Save(slug, html, meta) =>
                LET s == SanitizeSlug(slug)
                IN  IF resp'.status = 200
                    THEN /\ DOMAIN files' = DOMAIN files \cup {s}
                         /\ files'[s] = (IF html = Undefined THEN <<>> ELSE html.v)
                         /\ \A n \in DOMAIN files \ {s} : files'[n] = files[n]
                    ELSE files' = files
      ]_vars

\* an upsert without html overwrote the page A.html, which had a title, next
\* to the page a.html, which kept it
OnlySaveWritesPagesWitness ==
    /\ resp.op = "save"
    /\ resp.status = 200
    /\ resp.path[2] = <<"A">>
    /\ indexSeen = "array"
    /\ DOMAIN files = {<<"a">>, <<"A">>, <<"-">>}
    /\ files[<<"A">>] = <<>>
    /\ files[<<"a">>] = TitledDoc

----------------------------------------------------------------------------
\* One reconcile of a projects directory and an index that do not agree

\* the page orphan.html with <title>Orphan Page | Sharva Paralkar</title>
Orphan == <<"o", "r", "p", "h", "a", "n">>
OrphanDoc ==
    <<[tag |-> "title", text |-> <<"Orphan Page", " ", "|", " ", "Sharva Paralkar">>]>>

\* the base names of the pages the directory may hold
DirNames == {<<"a">>, <<"A">>, <<"c">>, Orphan}

\* the page of each base name
DirDoc(base) == IF base = Orphan THEN OrphanDoc ELSE TitledDoc

\* the records the index may hold: one per base name and one with no slug
DirRecords ==
    {BuildEntry(n, EmptyMeta) : n \in DirNames}
    \cup {[BuildEntry(<<"a">>, EmptyMeta) EXCEPT !.slug = Undefined]}

InitDir ==
    /\ indexFile \in
          {NoFile} \cup {JsonStringify(recs) :
              recs \in UNION {[1..n -> DirRecords] : n \in 0..MaxInitRecords}}
    /\ files \in {[n \in names |-> DirDoc(n)] : names \in SUBSET DirNames}
    /\ resp = NoResponse
    /\ indexSeen = "none"
    /\ syncStreak = 0
    /\ InitRest

\* the first reconcile of this directory
FirstSync ==
    /\ resp = NoResponse
    /\ SyncRequest

SpecDir == InitDir /\ [][FirstSync]_vars

\* the place of the page of this base name in a directory listing
PlaceIn(listing, base) == CHOOSE k \in 1..Len(listing) : listing[k] = HtmlFile(base)

\* the loaded record has a page: its lowercased slug is a lowercased base name
HasPage(p) == SyncKey(p) \in FileKeys

\* C13: the list a reconcile persists and returns starts with the loaded
\* records that have a page, with their fields and in their order, and ends
\* with the records added by this run, in the order in which the directory
\* listing returned their pages
SyncKeepsOrder ==
    \A listing \in Listings(Readdir(indexFile, files)) :
        LET r == SyncHandler(indexFile, files, listing)
            kept == SelectSeq(Persisted, HasPage)
            result == r.resp.projects
            added == r.resp.added
        IN  /\ LoadProjects(r.indexFile) = result
            /\ Len(result) = Len(kept) + Len(added)
            /\ SubSeq(result, 1, Len(kept)) = kept
            /\ \A n \in 1..Len(added) :
                  /\ result[Len(kept) + n] = BuildSyncEntry(added[n], files[added[n]])
                  /\ \A m \in 1..Len(added) :
                        m < n => PlaceIn(listing, added[m]) < PlaceIn(listing, added[n])

\* a reconcile kept a record, dropped the record before it and added two
\* records after it, for pages the listing returned out of alphabetical order
SyncKeepsOrderWitness ==
    /\ resp.op = "sync"
    /\ resp.removed = 1
    /\ resp.added = <<Orphan, <<"c">>>>
    /\ Len(resp.projects) = 3
    /\ resp.projects[1] = BuildEntry(<<"A">>, EmptyMeta)
    /\ Persisted = resp.projects

\* the lowercased slugs of the loaded records
LoadedKeys == {SyncKey(Persisted[i]) : i \in 1..Len(Persisted)}

\* C14: what a reconcile returns agrees with what it did: added holds, in the
\* letter case of the page's name, one slug for each record appended, which is
\* one for each lowercased base name that no loaded record has; removed is
\* the number of loaded records without a page; and the number of records
\* returned is loaded + added - removed.  With the page orphan.html alone and
\* one record whose page is gone, added is ["orphan"] and removed is 1
SyncResultConsistent ==
    \A listing \in Listings(Readdir(indexFile, files)) :
        LET r == SyncHandler(indexFile, files, listing).resp
            kept == SelectSeq(Persisted, HasPage)
        IN  /\ \A n \in 1..Len(r.added) : r.added[n] \in DOMAIN files
            /\ {ToLowerCase(r.added[n]) : n \in 1..Len(r.added)} = FileKeys \ LoadedKeys
            /\ Len(r.added) = Cardinality(FileKeys \ LoadedKeys)
            /\ Len(r.added) = Len(r.projects) - Len(kept)
            /\ \A n \in 1..Len(r.added) :
                  r.projects[Len(kept) + n].slug = Str(r.added[n])
            /\ r.removed = Len(Persisted) - Len(kept)
            /\ Len(r.projects) = Len(Persisted) + Len(r.added) - r.removed
            /\ r.message = <<Len(r.projects), Len(r.added), r.removed>>
            /\ (DOMAIN files = {Orphan} /\ Len(Persisted) = 1 /\ Len(kept) = 0) =>
                  /\ r.added = <<Orphan>>
                  /\ r.removed = 1
                  /\ r.projects =
                        <<[slug |-> Str(Orphan), title |-> Str(<<"Orphan Page">>),
                           category |-> Str(<<>>), dataCategory |-> Arr(<<>>),
                           description |-> Str(<<>>), tags |-> Arr(<<>>),
                           image |-> Str(<<>>)]>>

\* the reconcile of the scenario ran: orphan.html got its record and the
\* record whose page is gone was removed
SyncResultConsistentWitness ==
    /\ resp.op = "sync"
    /\ DOMAIN files = {Orphan}
    /\ resp.added = <<Orphan>>
    /\ resp.removed = 1
    /\ Len(Persisted) = 1
    /\ Persisted[1].title = Str(<<"Orphan Page">>)

----------------------------------------------------------------------------
\* The reconcile of one page that has no record, for any content of the page

\* the most elements of an enumerated page
MaxElems == 2

\* a page named with a hyphen
MyPage == <<"m", "y", "-", "p", "a", "g", "e">>
PageNames == {<<"a">>, MyPage}

\* the elements of the enumerated pages: titles with and without the owner
\* suffix, titles and headings of whitespace, an empty title, images
PageElems ==
    {[tag |-> "title", text |-> <<"T", " ", "|", " ", "Sharva Paralkar">>],
     [tag |-> "title", text |-> <<" ", "T", " ">>],
     [tag |-> "title", text |-> <<" ", "|", " ", "SHARVA PARALKAR", " ">>],
     [tag |-> "title", text |-> <<" ">>],
     [tag |-> "title", text |-> <<>>],
     [tag |-> "h1", text |-> <<" ", "H">>],
     [tag |-> "h1", text |-> <<" ">>],
     [tag |-> "img", text |-> <<"i">>],
     [tag |-> "img", text |-> <<"j", " ">>]}

PageDocs == UNION {[1..n -> PageElems] : n \in 0..MaxElems}

InitPage ==
    /\ indexFile \in {NoFile, JsonStringify(<<>>)}
    /\ files \in {[n \in {name} |-> doc] : name \in PageNames, doc \in PageDocs}
    /\ resp = NoResponse
    /\ indexSeen = "none"
    /\ syncStreak = 0
    /\ InitRest

SpecPage == InitPage /\ [][FirstSync]_vars

\* the texts a regular expression of parseMetaFromHtml can capture in a page:
\* the non-empty texts of the elements of this tag, in document order
Captures(doc, tag) ==
    LET Hit(e) == e.tag = tag /\ e.text /= <<>>
        hits == SelectSeq(doc, Hit)
    IN  [k \in 1..Len(hits) |-> hits[k].text]

\* the record that a reconcile added for this slug
AddedRecord(slug) ==
    Persisted[CHOOSE i \in 1..Len(Persisted) : Persisted[i].slug = Str(slug)]

\* a page whose title holds the owner suffix alone, followed by a heading
SuffixOnlyDoc ==
    <<[tag |-> "title", text |-> <<" ", "|", " ", "SHARVA PARALKAR", " ">>],
      [tag |-> "h1", text |-> <<" ", "H">>]>>

\* C16, as amended: the title of a record added by a reconcile is the first
\* non-empty text among the first title element's text without the owner
\* suffix and the surrounding whitespace, the first h1 element's text without
\* the surrounding whitespace, and the humanized slug, so that a title that
\* strips to the empty text falls back just as a missing title does; the image
\* is the first img src without the surrounding whitespace, or the empty text
TitleByFirstNonEmpty ==
    resp.op = "sync" =>
        \A n \in 1..Len(resp.added) :
            LET slug == resp.added[n]
                titles == Captures(files[slug], "title")
                h1s == Captures(files[slug], "h1")
                imgs == Captures(files[slug], "img")
                t == IF titles /= <<>> THEN Trim(StripOwnerSuffix(titles[1])) ELSE <<>>
                h == IF h1s /= <<>> THEN Trim(h1s[1]) ELSE <<>>
                rec == AddedRecord(slug)
            IN  /\ rec.title = Str(IF t /= <<>> THEN t
                                   ELSE IF h /= <<>> THEN h
                                   ELSE HumanizeSlug(slug))
                /\ rec.image = Str(IF imgs /= <<>> THEN Trim(imgs[1]) ELSE <<>>)
                /\ files[slug] = SuffixOnlyDoc => rec.title = Str(<<"H">>)
                /\ (slug = MyPage /\ titles = <<<<" ">>>> /\ h1s = <<>>) =>
                      rec.title = Str(<<"M", "y", " ", "P", "a", "g", "e">>)

\* a reconcile added the record of a page whose title strips to the empty
\* text and whose heading is " H"
TitleByFirstNonEmptyWitness ==
    /\ resp.op = "sync"
    /\ resp.added = <<MyPage>>
    /\ files[MyPage] = SuffixOnlyDoc
    /\ Persisted[1].title = Str(<<"H">>)

\* C16, as claimed: the title is chosen by which tag matched: the text of a
\* matched title element without suffix and whitespace, even when that is
\* the empty text; the first h1 text only if no title matched; the humanized
\* slug only if neither matched
TitleByStrictPriority ==
    resp.op = "sync" =>
        \A n \in 1..Len(resp.added) :
            LET slug == resp.added[n]
                titles == Captures(files[slug], "title")
                h1s == Captures(files[slug], "h1")
                imgs == Captures(files[slug], "img")
                rec == AddedRecord(slug)
            IN  /\ rec.title = Str(IF titles /= <<>>
                                   THEN Trim(StripOwnerSuffix(titles[1]))
                                   ELSE IF h1s /= <<>> THEN Trim(h1s[1])
                                   ELSE HumanizeSlug(slug))
                /\ rec.image = Str(IF imgs /= <<>> THEN Trim(imgs[1]) ELSE <<>>)

----------------------------------------------------------------------------
\* The variant of src/TemplateEdit/server-editor.js

\* the load of PROJECTS_JSON in server-editor.js
EdLoadProjects(idx) ==
    LET parsed == IF idx.exists
                  THEN (IF idx.valid THEN idx.value ELSE Arr(<<>>))
                  ELSE Arr(<<>>)
    IN  IF IsArray(parsed) THEN parsed.v ELSE <<>>

\* (req.body.slug || '').replace(/[^a-z0-9-]/gi, '-') in server-editor.js
EdSanitizeSlug(raw) ==
    LET s == JsOr(raw, Str(<<>>)).v
    IN  [i \in 1..Len(s) |-> IF IsSlugChar(s[i]) THEN s[i] ELSE "-"]

\* the entry object literal of server-editor.js
EdBuildEntry(slug, meta) ==
    [slug |-> Str(slug),
     title |-> JsOr(meta.title, Str(slug)),
     category |-> JsOr(meta.category, Str(<<>>)),
     dataCategory |-> IF IsArray(meta.dataCategory) THEN meta.dataCategory
                      ELSE (IF Truthy(meta.dataCategory)
                            THEN Arr(<<meta.dataCategory>>) ELSE Arr(<<>>)),
     description |-> JsOr(meta.description, Str(<<>>)),
     tags |-> IF IsArray(meta.tags) THEN meta.tags
              ELSE (IF Truthy(meta.tags) THEN Arr(<<meta.tags>>) ELSE Arr(<<>>)),
     image |-> JsOr(meta.image, Str(<<>>))]

\* EdFindIndex comparing the slugs as they are, without toLowerCase
EdFindIndexCaseSensitive(projects, slug) ==
    LET hits == {i \in 1..Len(projects) : JsOr(projects[i].slug, Str(<<>>)).v = slug}
    IN  IF hits = {} THEN 0 ELSE CHOOSE i \in hits : \A j \in hits : i <= j

\* projects.findIndex(...) of server-editor.js; 0 stands for -1
EdFindIndex(projects, slug) ==
    LET hits == {i \in 1..Len(projects) :
                    ToLowerCase(JsOr(projects[i].slug, Str(<<>>)).v) = ToLowerCase(slug)}
    IN  IF hits = {} THEN 0 ELSE CHOOSE i \in hits : \A j \in hits : i <= j

\* app.post('/api/save') of server-editor.js: the state and the response
EdSaveHandler(idx, fs, body) ==
    LET slug == EdSanitizeSlug(body.slug)
    IN  IF slug = <<>>
        THEN [indexFile |-> idx, files |-> fs,
              resp |-> [op |-> "save", status |-> 400, error |-> "Missing slug"]]
        ELSE LET html == JsOr(body.html, Str(<<>>)).v
                 meta == IF Truthy(body.meta) THEN body.meta.v ELSE EmptyMeta
                 loaded == EdLoadProjects(idx)
                 entry == EdBuildEntry(slug, meta)
                 idx2 == EdFindIndex(loaded, slug)
                 projects == IF idx2 > 0 THEN [loaded EXCEPT ![idx2] = entry]
                             ELSE Append(loaded, entry)
             IN  [indexFile |-> [exists |-> TRUE, valid |-> TRUE, value |-> Arr(projects)],
                  files |-> [n \in DOMAIN fs \cup {slug} |->
                                IF n = slug THEN html ELSE fs[n]],
                  resp |-> [op |-> "save", status |-> 200,
                            path |-> <<"projects/", slug, ".html">>]]

\* POST /api/save sent to server-editor.js
EdSave(slug, html, meta) ==
    LET r == EdSaveHandler(edIndexFile, edFiles,
                           [slug |-> slug, html |-> html, meta |-> meta])
    IN  /\ edIndexFile' = r.indexFile
        /\ edFiles' = r.files
        /\ edResp' = r.resp

\* GET /api/sync-projects sent to server-editor.js: no route and no static file
\* matches, so express answers 404
EdSync ==
    /\ edResp' = [op |-> "sync", status |-> 404]
    /\ UNCHANGED <<edIndexFile, edFiles>>

\* the pages a projects directory may start with
StartFiles ==
    UNION {[names -> ExternalDocs \cup {<<>>}] : names \in SUBSET ExternalNames}

\* both variants start on equal directory contents and an equal index
InitPair ==
    /\ indexFile \in {NoFile, JsonStringify(<<>>)}
    /\ files \in StartFiles
    /\ resp = NoResponse
    /\ indexSeen = "none"
    /\ syncStreak = 0
    /\ saveLog = <<>>
    /\ edIndexFile = indexFile
    /\ edFiles = files
    /\ edResp = NoResponse
    /\ reqs = <<>>
    /\ pc = <<>>
    /\ local = <<>>
    /\ out = <<>>
    /\ running = 0

\* the same save request sent to both variants
PairSave ==
    /\ \E slug \in SlugInputs, html \in HtmlInputs, meta \in MetaInputs :
          Save(slug, html, meta) /\ EdSave(slug, html, meta)
    /\ UNCHANGED <<saveLog, flight>>

\* the same reconcile request sent to both variants
PairSync ==
    /\ \E listing \in Listings(Readdir(indexFile, files)) : Sync(listing)
    /\ EdSync
    /\ UNCHANGED <<saveLog, flight>>

NextPair == PairSave \/ PairSync

SpecPair == InitPair /\ [][NextPair]_vars

\* the two variants hold the same index and the same pages
StoresAgree == indexFile = edIndexFile /\ files = edFiles

\* the two responses to a save differ in the prefix of the path only
SaveResponsesAgree ==
    /\ resp.op = edResp.op
    /\ resp.status = edResp.status
    /\ resp.status = 200 =>
          /\ resp.path[1] = "TemplateEdit/projects/"
          /\ edResp.path[1] = "projects/"
          /\ resp.path[2] = edResp.path[2]
          /\ resp.path[3] = edResp.path[3]
    /\ resp.status = 400 => resp.error = edResp.error

\* C9, as claimed: after the same sequence of requests from equal stores the
\* two variants answer with the same status and hold the same index records
\* and the same pages
VariantsEquivalent ==
    /\ StoresAgree
    /\ resp.status = edResp.status

\* C9, as amended: from equal stores, the same save request leaves equal index
\* records and pages in both variants, with responses that differ in the path
\* prefix only; a reconcile request is served by part_000 alone:
\* server-editor.js answers 404 and changes nothing
VariantsAgreeOnSave ==
    [][/\ (StoresAgree /\ resp'.op = "save") =>
             (StoresAgree' /\ SaveResponsesAgree')
       /\ resp'.op = "sync" =>
             /\ edResp'.status = 404
             /\ edIndexFile' = edIndexFile
             /\ edFiles' = edFiles
      ]_vars

\* both variants replaced a record in place after the same saves
VariantsAgreeOnSaveWitness ==
    /\ StoresAgree
    /\ resp.op = "save"
    /\ resp.status = 200
    /\ edResp.status = 200
    /\ Len(Persisted) = 2
    /\ Persisted[1].slug = Str(<<"A">>)
    /\ resp.path[1] /= edResp.path[1]

----------------------------------------------------------------------------
\* Overlapping requests in one server process, handler line by handler line

\* the requests that overlap
NumRequests == 2

SaveOf(slug) ==
    [op |-> "save", slug |-> Str(slug), html |-> Undefined, meta |-> Undefined]
SyncOf == [op |-> "sync", slug |-> Undefined, html |-> Undefined, meta |-> Undefined]

FlightRequests == {SaveOf(<<"a">>), SaveOf(<<"!">>), SaveOf(<<>>), SyncOf}

Requests == 1..NumRequests

\* the handlers call only the synchronous fs functions and never yield, so a
\* handler keeps the JavaScript thread from its first line to its response
OnThreadAlways(i) == TRUE

\* request i may run: the JavaScript thread is free or is running its handler
OnThread(i) == running \in {0, i}

\* every request of the process has been parsed and waits for the event loop
InitFlight ==
    /\ indexFile \in {NoFile, JsonStringify(<<>>)}
    /\ files \in {<<>>, [n \in {<<"A">>} |-> TitledDoc]}
    /\ resp = NoResponse
    /\ indexSeen = "none"
    /\ syncStreak = 0
    /\ saveLog = <<>>
    /\ edIndexFile = NoFile
    /\ edFiles = <<>>
    /\ edResp = NoResponse
    /\ reqs \in [Requests -> FlightRequests]
    /\ pc = [i \in Requests |-> "queued"]
    /\ local = [i \in Requests |-> [slug |-> <<>>, projects |-> <<>>]]
    /\ out = [i \in Requests |-> NoResponse]
    /\ running = 0

\* /api/save up to the Missing slug test
BeginSave(i) ==
    /\ pc[i] = "queued"
    /\ reqs[i].op = "save"
    /\ OnThread(i)
    /\ LET slug == SanitizeSlug(reqs[i].slug)
       IN  IF slug = <<>>
           THEN /\ out' = [out EXCEPT ![i] =
                              [op |-> "save", status |-> 400, error |-> "Missing slug"]]
                /\ pc' = [pc EXCEPT ![i] = "done"]
                /\ running' = 0
                /\ UNCHANGED local
           ELSE /\ local' = [local EXCEPT ![i].slug = slug]
                /\ pc' = [pc EXCEPT ![i] = "html"]
                /\ running' = i
                /\ UNCHANGED out
    /\ UNCHANGED <<core, saveLog, editor, reqs>>

\* WritePage with the page left to be written after the index
WritePageDeferred(i) ==
    /\ pc[i] = "html"
    /\ OnThread(i)
    /\ pc' = [pc EXCEPT ![i] = "load"]
    /\ running' = i
    /\ UNCHANGED <<core, saveLog, editor, reqs, local, out>>

\* /api/save: fs.writeFileSync(filePath, req.body.html || '', 'utf8')
WritePage(i) ==
    /\ pc[i] = "html"
    /\ OnThread(i)
    /\ files' = WriteHtml(files, local[i].slug, JsOr(reqs[i].html, Str(<<>>)).v)
    /\ pc' = [pc EXCEPT ![i] = "load"]
    /\ running' = i
    /\ UNCHANGED <<indexFile, resp, syncStreak, indexSeen, saveLog, editor, reqs, local, out>>

\* either handler: the load of PROJECTS_JSON into projects
LoadIndex(i) ==
    /\ \/ pc[i] = "load"
       \/ pc[i] = "queued" /\ reqs[i].op = "sync"
    /\ OnThread(i)
    /\ local' = [local EXCEPT ![i].projects = LoadProjects(indexFile)]
    /\ pc' = [pc EXCEPT ![i] = "loaded"]
    /\ running' = i
    /\ UNCHANGED <<core, saveLog, editor, reqs, out>>

\* /api/save from the entry to the response
WriteIndex(i) ==
    /\ pc[i] = "loaded"
    /\ reqs[i].op = "save"
    /\ OnThread(i)
    /\ indexFile' = JsonStringify(
          UpsertEntry(local[i].projects, BuildEntry(local[i].slug, MetaOf(reqs[i]))))
    /\ out' = [out EXCEPT ![i] =
                  [op |-> "save", status |-> 200, path |-> StoredPath(local[i].slug)]]
    /\ pc' = [pc EXCEPT ![i] = "done"]
    /\ running' = 0
    /\ UNCHANGED <<files, resp, syncStreak, indexSeen, saveLog, editor, reqs, local>>

\* /api/sync-projects from readdirSync to the response
MergeAndWrite(i) ==
    /\ pc[i] = "loaded"
    /\ reqs[i].op = "sync"
    /\ OnThread(i)
    /\ \E listing \in Listings(Readdir(indexFile, files)) :
          LET m == SyncMerge(local[i].projects, files, listing)
          IN  /\ indexFile' = m.indexFile
              /\ out' = [out EXCEPT ![i] = m.resp]
    /\ pc' = [pc EXCEPT ![i] = "done"]
    /\ running' = 0
    /\ UNCHANGED <<files, resp, syncStreak, indexSeen, saveLog, editor, reqs, local>>

NextFlight ==
    \E i \in Requests :
        BeginSave(i) \/ WritePage(i) \/ LoadIndex(i) \/ WriteIndex(i) \/ MergeAndWrite(i)

SpecFlight == InitFlight /\ [][NextFlight]_vars

\* request i is between its first line and its response
InHandler(i) == pc[i] \in {"html", "load", "loaded"}

\* the persisted index holds a record for this lowercased slug
HasRecord(key) == \E n \in 1..Len(Persisted) : SlugKey(Persisted[n]) = key

\* C8, as amended: the requests of one process do not interleave, no handler
\* starts while another is between its first line and its response, and once a
\* request is answered the persisted index keeps its change: the record of an
\* accepted upsert (the very record, when no other request has its slug) and a
\* record for every slug a reconcile added
NoLostUpdate ==
    /\ \A i, j \in Requests : (InHandler(i) /\ InHandler(j)) => i = j
    /\ \A i \in Requests :
          (pc[i] = "done" /\ out[i].op = "save" /\ out[i].status = 200) =>
              /\ HasRecord(ToLowerCase(out[i].path[2]))
              /\ (\A j \in Requests \ {i} : reqs[j] /= reqs[i] /\ reqs[j].op = "save") =>
                    \E n \in 1..Len(Persisted) :
                        Persisted[n] = BuildEntry(out[i].path[2], MetaOf(reqs[i]))
    /\ \A i \in Requests :
          (pc[i] = "done" /\ out[i].op = "sync") =>
              \A n \in 1..Len(out[i].added) : HasRecord(ToLowerCase(out[i].added[n]))

\* two upserts of different slugs overlapped, both were answered, and the
\* index holds both records
NoLostUpdateWitness ==
    /\ \A i \in Requests : pc[i] = "done" /\ out[i].status = 200
    /\ reqs[1] = SaveOf(<<"a">>)
    /\ reqs[2] = SaveOf(<<"!">>)
    /\ Len(Persisted) = 2

\* the first step of request i's handler
BeginRequest(i) == BeginSave(i) \/ (reqs[i].op = "sync" /\ LoadIndex(i))

\* C8, as claimed: overlapping requests can interleave their index load and
\* index rewrite: while one request has loaded the index and not yet rewritten
\* it, a waiting request can start its handler
CanInterleave ==
    \A i, j \in Requests :
        (pc[i] = "loaded" /\ pc[j] = "queued") => ENABLED BeginRequest(j)

----------------------------------------------------------------------------
\* Upserts that may fail or stop between the two writes, and reconciles

\* the requests of a sequence: upserts of one slug in two letter cases, of
\* another slug and of no slug, and reconciles
CrashRequests == FlightRequests \cup {SaveOf(<<"A">>)}

\* an empty index, or none, and an empty projects directory
InitCrash ==
    /\ InitCore
    /\ saveLog = <<>>
    /\ edIndexFile = NoFile
    /\ edFiles = <<>>
    /\ edResp = NoResponse
    /\ reqs \in [Requests -> CrashRequests]
    /\ pc = [i \in Requests |-> "queued"]
    /\ local = [i \in Requests |-> [slug |-> <<>>, projects |-> <<>>]]
    /\ out = [i \in Requests |-> NoResponse]
    /\ running = 0

\* /api/save ends after the page was written and before the index is: the
\* write of PROJECTS_JSON throws, or the process is stopped and started again
Fail(i) ==
    /\ pc[i] \in {"load", "loaded"}
    /\ reqs[i].op = "save"
    /\ OnThread(i)
    /\ out' = [out EXCEPT ![i] = [op |-> "save", status |-> 500]]
    /\ pc' = [pc EXCEPT ![i] = "done"]
    /\ running' = 0
    /\ UNCHANGED <<core, saveLog, editor, reqs, local>>

NextCrash ==
    \E i \in Requests :
        \/ BeginSave(i)
        \/ WritePage(i)
        \/ LoadIndex(i)
        \/ WriteIndex(i)
        \/ MergeAndWrite(i)
        \/ Fail(i)

SpecCrash == InitCrash /\ [][NextCrash]_vars

\* C17: from an empty index and an empty directory, in every state of a
\* sequence of upserts and reconciles, the states inside an upsert and after
\* an upsert that ended between its two writes included, every persisted
\* record has a page whose base name is its slug but for letter case; and
\* every reconcile leaves a record for every page, the page of an interrupted
\* upsert included
RecordsHavePages ==
    /\ [](\A n \in 1..Len(Persisted) : SlugKey(Persisted[n]) \in FileKeys)
    /\ [][\A i \in Requests :
             MergeAndWrite(i) =>
                /\ \A key \in FileKeys' : \E n \in 1..Len(Persisted') :
                      SlugKey(Persisted'[n]) = key
                /\ \A j \in Requests :
                      (pc[j] = "done" /\ out[j].status = 500 /\ ~HasRecord(ToLowerCase(local[j].slug)))
                         => \E n \in 1..Len(out'[i].added) :
                               ToLowerCase(out'[i].added[n]) = ToLowerCase(local[j].slug)
         ]_vars

\* an upsert ended between its two writes and left a page without a record,
\* and the reconcile that followed added the record
RecordsHavePagesWitness ==
    /\ reqs[1] = SaveOf(<<"A">>)
    /\ out[1].status = 500
    /\ reqs[2] = SyncOf
    /\ pc[2] = "done"
    /\ out[2].added = <<<<"A">>>>
    /\ DOMAIN files = {<<"A">>}
    /\ Len(Persisted) = 1

====
